---- MODULE Spec2Model ----
(***************************************************************************)
(* Buddy-system allocator of src/buddy_system.py: class BuddySystem (the   *)
(* free lists `memory`, the table `allocated`) driven by the two handlers  *)
(* of BuddySystemGUI, allocate_block and deallocate_block.                 *)
(***************************************************************************)
EXTENDS Integers, Sequences, FiniteSets, TLC

VARIABLES total_memory, memory, allocated, last, scen

vars == <<total_memory, memory, allocated, last, scen>>

(* ---- bounds of the exploration ---------------------------------------- *)

\* capacities explored are 2^1 .. 2^MaxExp
MaxExp == 3
\* requests explored go up to total_memory + MaxOver
MaxOver == 1
\* at most MaxLive blocks are allocated at a time
MaxLive == 2

(* ---- Python values ----------------------------------------------------- *)

\* the value `None` returned by allocate
None == <<>>

RECURSIVE Pow2(_)
Pow2(k) == IF k = 0 THEN 1 ELSE 2 * Pow2(k - 1)

\* int.bit_length(): the number of bits of the absolute value
RECURSIVE bit_length(_)
bit_length(n) ==
    IF n = 0 THEN 0
    ELSE IF n < 0 THEN bit_length(0 - n)
    ELSE 1 + bit_length(n \div 2)

\* a ^ b on non-negative integers
RECURSIVE XOR(_, _)
XOR(a, b) ==
    IF a = 0 THEN b
    ELSE IF b = 0 THEN a
    ELSE 2 * XOR(a \div 2, b \div 2) + (IF (a % 2) = (b % 2) THEN 0 ELSE 1)

\* dict.get(k, [])
Get(mem, k) == IF k \in DOMAIN mem THEN mem[k] ELSE <<>>

\* dict.setdefault(k, [])
SetDefault(mem, k) == IF k \in DOMAIN mem THEN mem ELSE mem @@ (k :> <<>>)

\* `k in mem and mem[k]`
HasFree(mem, k) == k \in DOMAIN mem /\ mem[k] # <<>>

\* x in list
InList(s, x) == \E i \in 1..Len(s) : s[i] = x

\* list.remove(x): drops the first occurrence of x
Remove(s, x) ==
    LET i == CHOOSE j \in 1..Len(s) : s[j] = x /\ \A h \in 1..(j - 1) : s[h] # x
    IN  SubSeq(s, 1, i - 1) \o SubSeq(s, i + 1, Len(s))

Min(a, b) == IF a <= b THEN a ELSE b
Max(a, b) == IF a >= b THEN a ELSE b

(* ---- class BuddySystem -------------------------------------------------- *)

\* the while loop of _find_nearest_power_of_two
RECURSIVE power_loop(_, _)
power_loop(power, size) ==
    IF power < size THEN power_loop(power * 2, size) ELSE power

RECURSIVE power_loop_incr(_, _)
power_loop_incr(power, size) ==
    IF power < size THEN power_loop_incr(power + 1, size) ELSE power

_find_nearest_power_of_two_incr(size) == power_loop_incr(1, size)

RECURSIVE power_loop_half(_, _)
power_loop_half(power, size) ==
    IF power * 2 < size THEN power_loop_half(power * 2, size) ELSE power

_find_nearest_power_of_two_half(size) == power_loop_half(1, size)

RECURSIVE power_loop_le(_, _)
power_loop_le(power, size) ==
    IF power <= size THEN power_loop_le(power * 2, size) ELSE power

_find_nearest_power_of_two_le(size) == power_loop_le(1, size)

_find_nearest_power_of_two(size) == power_loop(1, size)

\* _split_block, lines 45-49: pop the donor, bisect it, append both halves
bisect_first_half_only(mem, larger_size) ==
    LET block == Head(mem[larger_size])
        popped == [mem EXCEPT ![larger_size] = Tail(@)]
        mid == (block[1] + block[2]) \div 2
        smaller_size == larger_size \div 2
        m1 == SetDefault(popped, smaller_size)
    IN  [m1 EXCEPT ![smaller_size] = Append(@, <<block[1], mid>>)]

bisect_quarter_key(mem, larger_size) ==
    LET block == Head(mem[larger_size])
        popped == [mem EXCEPT ![larger_size] = Tail(@)]
        mid == (block[1] + block[2]) \div 2
        smaller_size == larger_size \div 4
        m1 == SetDefault(popped, smaller_size)
    IN  [m1 EXCEPT ![smaller_size] = @ \o << <<block[1], mid>>, <<mid, block[2]>> >>]

bisect_mid_of_end(mem, larger_size) ==
    LET block == Head(mem[larger_size])
        popped == [mem EXCEPT ![larger_size] = Tail(@)]
        mid == block[2] \div 2
        smaller_size == larger_size \div 2
        m1 == SetDefault(popped, smaller_size)
    IN  [m1 EXCEPT ![smaller_size] = @ \o << <<block[1], mid>>, <<mid, block[2]>> >>]

bisect(mem, larger_size) ==
    LET block == Head(mem[larger_size])
        popped == [mem EXCEPT ![larger_size] = Tail(@)]
        mid == (block[1] + block[2]) \div 2
        smaller_size == larger_size \div 2
        m1 == SetDefault(popped, smaller_size)
    IN  [m1 EXCEPT ![smaller_size] = @ \o << <<block[1], mid>>, <<mid, block[2]>> >>]

\* the while loop of _split_block
RECURSIVE split_loop(_, _, _)
split_loop(mem, total, larger_size) ==
    IF larger_size <= total
    THEN IF HasFree(mem, larger_size)
         THEN [ok |-> TRUE, donor |-> larger_size, memory |-> bisect(mem, larger_size)]
         ELSE split_loop(mem, total, larger_size * 2)
    ELSE [ok |-> FALSE, donor |-> 0, memory |-> mem]

\* the donor's halves filed under the requested size
RECURSIVE split_loop_at_request(_, _, _, _)
split_loop_at_request(mem, total, size, larger_size) ==
    IF larger_size <= total
    THEN IF HasFree(mem, larger_size)
         THEN LET block == Head(mem[larger_size])
                  popped == [mem EXCEPT ![larger_size] = Tail(@)]
                  mid == (block[1] + block[2]) \div 2
                  m1 == SetDefault(popped, size)
              IN  [ok |-> TRUE, donor |-> larger_size,
                   memory |-> [m1 EXCEPT ![size] =
                                  @ \o << <<block[1], mid>>, <<mid, block[2]>> >>]]
         ELSE split_loop_at_request(mem, total, size, larger_size * 2)
    ELSE [ok |-> FALSE, donor |-> 0, memory |-> mem]

_split_block_at_request(mem, total, size) ==
    split_loop_at_request(mem, total, size, size * 2)

\* the search for a donor run from the capacity downwards
RECURSIVE split_loop_down(_, _, _)
split_loop_down(mem, size, larger_size) ==
    IF larger_size > size
    THEN IF HasFree(mem, larger_size)
         THEN [ok |-> TRUE, donor |-> larger_size, memory |-> bisect(mem, larger_size)]
         ELSE split_loop_down(mem, size, larger_size \div 2)
    ELSE [ok |-> FALSE, donor |-> 0, memory |-> mem]

_split_block_largest(mem, total, size) == split_loop_down(mem, size, total)

_split_block_one_level(mem, total, size) ==
    IF size * 2 <= total /\ HasFree(mem, size * 2)
    THEN split_loop(mem, total, size * 2)
    ELSE [ok |-> FALSE, donor |-> 0, memory |-> mem]

_split_block(mem, total, size) == split_loop(mem, total, size * 2)

\* allocate, lines 17-19: pop the first block of the class and record it
grant_without_pop(mem, alloc, size, block_size) ==
    LET block == Head(mem[block_size])
    IN  [block |-> block,
         memory |-> mem,
         allocated |-> [a \in DOMAIN alloc \cup {block[1]} |->
                           IF a = block[1] THEN <<size, block_size>> ELSE alloc[a]]]

grant_pop_last(mem, alloc, size, block_size) ==
    LET block == mem[block_size][Len(mem[block_size])]
    IN  [block |-> block,
         memory |-> [mem EXCEPT ![block_size] = SubSeq(@, 1, Len(@) - 1)],
         allocated |-> [a \in DOMAIN alloc \cup {block[1]} |->
                           IF a = block[1] THEN <<size, block_size>> ELSE alloc[a]]]

grant(mem, alloc, size, block_size) ==
    LET block == Head(mem[block_size])
    IN  [block |-> block,
         memory |-> [mem EXCEPT ![block_size] = Tail(@)],
         allocated |-> [a \in DOMAIN alloc \cup {block[1]} |->
                           IF a = block[1] THEN <<size, block_size>> ELSE alloc[a]]]

\* the while loop of allocate
RECURSIVE allocate_loop(_, _, _, _, _, _)
allocate_loop(mem, alloc, total, size, block_size, splits) ==
    IF block_size <= total
    THEN IF HasFree(mem, block_size)
         THEN LET g == grant(mem, alloc, size, block_size)
              IN  [block |-> g.block, memory |-> g.memory,
                   allocated |-> g.allocated, splits |-> splits]
         ELSE LET s == _split_block(mem, total, block_size)
              IN  IF s.ok
                  THEN allocate_loop(s.memory, alloc, total, size, block_size, splits + 1)
                  ELSE [block |-> None, memory |-> s.memory,
                        allocated |-> alloc, splits |-> splits]
    ELSE [block |-> None, memory |-> mem, allocated |-> alloc, splits |-> splits]

allocate(mem, alloc, total, size) ==
    allocate_loop(mem, alloc, total, size, _find_nearest_power_of_two(size), 0)

\* one merge, no recursion
_merge_buddies_once(mem, size, block) ==
    LET buddy_address == XOR(block[1], size)
        buddy == <<buddy_address, buddy_address + size>>
    IN  IF InList(Get(mem, size), buddy)
        THEN LET m1 == [mem EXCEPT ![size] = Remove(Remove(@, buddy), block)]
                 merged_block == <<Min(block[1], buddy[1]), Max(block[2], buddy[2])>>
                 m2 == SetDefault(m1, size * 2)
             IN  [memory |-> [m2 EXCEPT ![size * 2] = Append(@, merged_block)],
                  merges |-> 1]
        ELSE [memory |-> mem, merges |-> 0]

RECURSIVE _merge_buddies_plus(_, _, _)
_merge_buddies_plus(mem, size, block) ==
    LET buddy_address == block[1] + size
        buddy == <<buddy_address, buddy_address + size>>
    IN  IF InList(Get(mem, size), buddy)
        THEN LET m1 == [mem EXCEPT ![size] = Remove(Remove(@, buddy), block)]
                 merged_block == <<Min(block[1], buddy[1]), Max(block[2], buddy[2])>>
                 m2 == SetDefault(m1, size * 2)
                 m3 == [m2 EXCEPT ![size * 2] = Append(@, merged_block)]
                 r == _merge_buddies_plus(m3, size * 2, merged_block)
             IN  [memory |-> r.memory, merges |-> r.merges + 1]
        ELSE [memory |-> mem, merges |-> 0]

RECURSIVE _merge_buddies(_, _, _)
_merge_buddies(mem, size, block) ==
    LET buddy_address == XOR(block[1], size)
        buddy == <<buddy_address, buddy_address + size>>
    IN  IF InList(Get(mem, size), buddy)
        THEN LET m1 == [mem EXCEPT ![size] = Remove(Remove(@, buddy), block)]
                 merged_block == <<Min(block[1], buddy[1]), Max(block[2], buddy[2])>>
                 m2 == SetDefault(m1, size * 2)
                 m3 == [m2 EXCEPT ![size * 2] = Append(@, merged_block)]
                 r == _merge_buddies(m3, size * 2, merged_block)
             IN  [memory |-> r.memory, merges |-> r.merges + 1]
        ELSE [memory |-> mem, merges |-> 0]

\* the entry is not deleted
deallocate_keep_entry(mem, alloc, block) ==
    LET size == block[2] - block[1]
        m0 == SetDefault(mem, size)
        m1 == [m0 EXCEPT ![size] = Append(@, block)]
        r == _merge_buddies(m1, size, block)
    IN  [memory |-> r.memory, allocated |-> alloc, merges |-> r.merges]

deallocate(mem, alloc, block) ==
    LET size == block[2] - block[1]
        m0 == SetDefault(mem, size)
        m1 == [m0 EXCEPT ![size] = Append(@, block)]
        a1 == IF block[1] \in DOMAIN alloc
              THEN [a \in DOMAIN alloc \ {block[1]} |-> alloc[a]]
              ELSE alloc
        r == _merge_buddies(m1, size, block)
    IN  [memory |-> r.memory, allocated |-> a1, merges |-> r.merges]

\* the keys added by _ensure_memory_keys
_ensure_memory_keys(mem, total) ==
    LET sizes == {Pow2(i) : i \in 0..(bit_length(total) - 1)}
    IN  [k \in DOMAIN mem \cup sizes |-> IF k \in DOMAIN mem THEN mem[k] ELSE <<>>]

\* BuddySystem(total_memory) followed by _ensure_memory_keys(), as in __main__
BuddySystemInit(total) == _ensure_memory_keys(total :> << <<0, total>> >>, total)

(* ---- the program -------------------------------------------------------- *)

Capacities == {Pow2(k) : k \in 1..MaxExp}

\* the entry of allocate_block: 0, the least and the greatest request of every
\* size class, and the requests above the capacity
Requests ==
    {n \in 0..(Max(total_memory, 0) + MaxOver) :
        n <= 1 \/ n > total_memory \/ Pow2(bit_length(n) - 1) = n
               \/ Pow2(bit_length(n - 1) - 1) = n - 1}

AddressInputs == (0 - 1)..Max(total_memory, 0)

NoAlloc == [a \in {} |-> <<0, 0>>]

\* progress of the run "allocate(C/2), allocate(C/2), deallocate one,
\* deallocate the other" on the fresh allocator: 0 fresh, 1..4 calls made,
\* 5 any other run
ScenNext(op, arg) ==
    LET half == total_memory \div 2
    IN  IF op = "allocate" /\ arg = half /\ scen \in {0, 1} THEN scen + 1
        ELSE IF op = "deallocate" /\ scen = 2 /\ arg \in {0, half} THEN 3
        ELSE IF op = "deallocate" /\ scen = 3 /\ arg \in {0, half} \ {last.arg} THEN 4
        ELSE 5

Init ==
    /\ total_memory \in Capacities
    /\ memory = BuddySystemInit(total_memory)
    /\ allocated = NoAlloc
    /\ last = [op |-> "init", arg |-> 0, block |-> None, block_size |-> 0,
               splits |-> 0, merges |-> 0, status |-> "Success"]
    /\ scen = 0

\* allocate_block with an integer in the entry
allocate_block(size) ==
    LET r == allocate(memory, allocated, total_memory, size)
    IN  /\ Cardinality(DOMAIN r.allocated) <= MaxLive
        /\ memory' = r.memory
        /\ allocated' = r.allocated
        /\ last' = [op |-> "allocate", arg |-> size, block |-> r.block,
                    block_size |-> _find_nearest_power_of_two(size),
                    splits |-> r.splits, merges |-> 0,
                    status |-> IF r.block # None THEN "Success" ELSE "Failure"]
        /\ scen' = ScenNext("allocate", size)
        /\ UNCHANGED total_memory

\* deallocate_block with an integer in the entry
deallocate_block_unchecked(address) ==
    LET size == IF address \in DOMAIN allocated THEN allocated[address][2] ELSE 1
        block == <<address, address + size>>
        r == deallocate(memory, allocated, block)
    IN  /\ memory' = r.memory
        /\ allocated' = r.allocated
        /\ last' = [op |-> "deallocate", arg |-> address, block |-> block,
                    block_size |-> size, splits |-> 0, merges |-> r.merges,
                    status |-> "Success"]
        /\ scen' = ScenNext("deallocate", address)
        /\ UNCHANGED total_memory

deallocate_block(address) ==
    /\ IF address \in DOMAIN allocated
       THEN LET size == allocated[address][2]
                block == <<address, address + size>>
                r == deallocate(memory, allocated, block)
            IN  /\ memory' = r.memory
                /\ allocated' = r.allocated
                /\ last' = [op |-> "deallocate", arg |-> address, block |-> block,
                            block_size |-> size, splits |-> 0, merges |-> r.merges,
                            status |-> "Success"]
       ELSE /\ UNCHANGED <<memory, allocated>>
            /\ last' = [op |-> "deallocate", arg |-> address, block |-> None,
                        block_size |-> 0, splits |-> 0, merges |-> 0,
                        status |-> "Failure"]
    /\ scen' = ScenNext("deallocate", address)
    /\ UNCHANGED total_memory

\* either handler with a non-integer in the entry: int() raises ValueError
invalid_input(op) ==
    /\ last' = [op |-> op, arg |-> 0, block |-> None, block_size |-> 0,
                splits |-> 0, merges |-> 0, status |-> "Error"]
    /\ scen' = 5
    /\ UNCHANGED <<total_memory, memory, allocated>>

AllocateBlock == \E size \in Requests : allocate_block(size)

DeallocateBlock == \E address \in AddressInputs : deallocate_block(address)

InvalidInput == \E op \in {"allocate_error", "deallocate_error"} : invalid_input(op)

Next == AllocateBlock \/ DeallocateBlock \/ InvalidInput

Spec == Init /\ [][Next]_vars

\* BuddySystem(total) for a total that is not a power of two: __init__ stores
\* whatever it is given
OtherCapacities ==
    {c \in (0 - 2)..(2 * Pow2(MaxExp) - 1) : ~ (c >= 1 /\ Pow2(bit_length(c) - 1) = c)}

InitAny ==
    /\ total_memory \in OtherCapacities
    /\ memory = BuddySystemInit(total_memory)
    /\ allocated = NoAlloc
    /\ last = [op |-> "init", arg |-> 0, block |-> None, block_size |-> 0,
               splits |-> 0, merges |-> 0, status |-> "Success"]
    /\ scen = 0

SpecAny == InitAny /\ [][Next]_vars

(* ---- vocabulary of the properties --------------------------------------- *)

IsPowerOfTwo(n) == n >= 1 /\ Pow2(bit_length(n) - 1) = n

\* the smallest power of two that is >= n
SizeClass(n) ==
    CHOOSE p \in {Pow2(k) : k \in 0..(bit_length(Max(n, 1)) + 1)} :
        /\ p >= n
        /\ \A q \in {Pow2(k) : k \in 0..(bit_length(Max(n, 1)) + 1)} : q >= n => p <= q

\* the free blocks as (size class, position) entries, and the blocks they hold
FreeEntries(mem) == UNION {{<<k, i>> : i \in 1..Len(mem[k])} : k \in DOMAIN mem}

FreeBlock(mem, e) == mem[e[1]][e[2]]

\* how many blocks, free or allocated, hold the address unit u
Cover(mem, alloc, u) ==
    Cardinality({e \in FreeEntries(mem) :
                    FreeBlock(mem, e)[1] <= u /\ u < FreeBlock(mem, e)[2]})
    + Cardinality({a \in DOMAIN alloc : a <= u /\ u < a + alloc[a][2]})

\* the free lists hold the one block [0, total) and nothing else
OnlySeedFree(mem, total) ==
    /\ total \in DOMAIN mem
    /\ mem[total] = << <<0, total>> >>
    /\ \A k \in DOMAIN mem \ {total} : mem[k] = <<>>

Succeeded == last.op = "allocate" /\ last.block # None
Failed == last.op = "allocate" /\ last.block = None

(* ---- C1 ------------------------------------------------------------------ *)

\* C1: with a power-of-two capacity, after every sequence of allocate calls
\* and deallocate calls on allocated addresses, the free blocks and the
\* allocated blocks partition [0, total_memory): every block lies inside the
\* range and is not empty, and every address unit is held by exactly one block.
C1_Partition ==
    /\ \A e \in FreeEntries(memory) :
          /\ 0 <= FreeBlock(memory, e)[1]
          /\ FreeBlock(memory, e)[1] < FreeBlock(memory, e)[2]
          /\ FreeBlock(memory, e)[2] <= total_memory
    /\ \A a \in DOMAIN allocated :
          0 <= a /\ allocated[a][2] >= 1 /\ a + allocated[a][2] <= total_memory
    /\ \A u \in 0..(total_memory - 1) : Cover(memory, allocated, u) = 1

\* a deallocate that merged, with a block still allocated and free blocks in
\* two or more size classes
C1_Witness ==
    /\ last.op = "deallocate" /\ last.merges >= 1
    /\ DOMAIN allocated # {}
    /\ Cardinality({e[1] : e \in FreeEntries(memory)}) >= 2

(* ---- C2 ------------------------------------------------------------------ *)

\* C2: once every allocated block has been deallocated, whatever the order,
\* the only free block is [0, total_memory) in class total_memory, every other
\* class is empty and the allocation table is empty.
C2_RoundTrip ==
    DOMAIN allocated = {} => OnlySeedFree(memory, total_memory)

\* the last of several blocks was deallocated and merged up through two
\* or more levels
C2_Witness ==
    /\ last.op = "deallocate" /\ last.status = "Success"
    /\ DOMAIN allocated = {}
    /\ last.merges >= 2

(* ---- C3 ------------------------------------------------------------------ *)

\* C3: a deallocate request for an address that is not in the allocation
\* table is reported as a failure and leaves the free lists and the
\* allocation table unchanged.
C3_UnknownAddress ==
    [][(last'.op = "deallocate" /\ last'.arg \notin DOMAIN allocated)
          => (last'.status = "Failure" /\ memory' = memory /\ allocated' = allocated)]_vars

\* an unknown address was refused while other blocks are allocated
C3_Witness ==
    /\ last.op = "deallocate" /\ last.status = "Failure"
    /\ last.arg \notin DOMAIN allocated
    /\ DOMAIN allocated # {}

(* ---- C4 ------------------------------------------------------------------ *)

\* C4: allocate(requestedSize) with requestedSize <= 0 returns no block and
\* leaves the free lists and the allocation table unchanged.
C4_InvalidSize ==
    [][(last'.op = "allocate" /\ last'.arg <= 0)
          => (last'.block = None /\ memory' = memory /\ allocated' = allocated)]_vars

(* ---- C5 ------------------------------------------------------------------ *)

\* C5: an allocate call that returns no block leaves every free list and the
\* allocation table as they were before the call.
C5_FailedAllocateFrame ==
    [][(last'.op = "allocate" /\ last'.block = None)
          => (memory' = memory /\ allocated' = allocated)]_vars

\* a request that fits the capacity failed while free blocks exist
C5_Witness ==
    /\ Failed
    /\ last.arg >= 1 /\ last.block_size <= total_memory
    /\ FreeEntries(memory) # {}

(* ---- C6 ------------------------------------------------------------------ *)

SomeFreeOfAtLeast(mem, total, s) ==
    \E e \in FreeEntries(mem) :
        LET b == FreeBlock(mem, e)
        IN  s <= b[2] - b[1] /\ b[2] - b[1] <= total

\* capacity 16, allocate(20)
C6_Example == allocate(BuddySystemInit(16), NoAlloc, 16, 20).block = None

\* C6: in every reachable state and for every n >= 1, allocate(n) returns a
\* block exactly when some free block of a size between the rounded request
\* and total_memory exists; a request whose rounded size exceeds total_memory
\* fails.
C6_AllocateIffDonor ==
    /\ \A n \in 1..(total_memory + MaxOver) :
          LET r == allocate(memory, allocated, total_memory, n)
              s == _find_nearest_power_of_two(n)
          IN  /\ (r.block # None) <=> SomeFreeOfAtLeast(memory, total_memory, s)
              /\ s > total_memory => r.block = None
    /\ C6_Example

\* a request that fits the capacity was refused with blocks still free, all
\* of them too small
C6_Witness ==
    /\ Failed
    /\ last.arg >= 1 /\ last.block_size <= total_memory
    /\ FreeEntries(memory) # {}
    /\ ~ SomeFreeOfAtLeast(memory, total_memory, last.block_size)
    /\ Cardinality(DOMAIN allocated) >= 2

(* ---- C7 ------------------------------------------------------------------ *)

WellFormed(start, end) ==
    /\ IsPowerOfTwo(end - start)
    /\ start % (end - start) = 0

\* C7: every block returned by allocate and every free block has a
\* power-of-two size and a start that is a multiple of the size, and a free
\* block's size is the key of the class that holds it.
C7_WellFormed ==
    /\ \A e \in FreeEntries(memory) :
          /\ WellFormed(FreeBlock(memory, e)[1], FreeBlock(memory, e)[2])
          /\ FreeBlock(memory, e)[2] - FreeBlock(memory, e)[1] = e[1]
    /\ \A a \in DOMAIN allocated : WellFormed(a, a + allocated[a][2])
    /\ Succeeded => WellFormed(last.block[1], last.block[2])

\* an allocate that split twice returned a block, with free blocks in two
\* or more classes
C7_Witness ==
    /\ Succeeded /\ last.splits >= 2
    /\ Cardinality({e[1] : e \in FreeEntries(memory)}) >= 2

(* ---- C8 ------------------------------------------------------------------ *)

\* capacity 1024, allocate(100)
C8_Example ==
    LET r == allocate(BuddySystemInit(1024), NoAlloc, 1024, 100)
    IN  r.block = <<0, 128>> /\ r.allocated[0] = <<100, 128>>

\* C8: a successful allocate(n) returns a block of the size of n's class and
\* records (n, that size) under the block's start; every entry of the
\* allocation table has blockSize = the class of requestedSize and its block
\* is in no free list.
C8_GrantedSize ==
    /\ Succeeded =>
          /\ last.block[2] - last.block[1] = SizeClass(last.arg)
          /\ last.block[1] \in DOMAIN allocated
          /\ allocated[last.block[1]] = <<last.arg, SizeClass(last.arg)>>
    /\ \A a \in DOMAIN allocated :
          /\ allocated[a][2] = SizeClass(allocated[a][1])
          /\ \A e \in FreeEntries(memory) :
                FreeBlock(memory, e) # <<a, a + allocated[a][2]>>
    /\ C8_Example

\* a request that is not a power of two was granted a larger block
C8_Witness ==
    /\ Succeeded
    /\ last.arg >= 3
    /\ last.block[2] - last.block[1] > last.arg
    /\ allocated[last.block[1]] = <<last.arg, last.block[2] - last.block[1]>>

(* ---- C9 ------------------------------------------------------------------ *)

\* C9: for every n >= 1 the rounded size p is a power of two, p >= n, and
\* p/2 < n.
C9_Rounding ==
    /\ (last.op = "allocate" /\ last.arg >= 1) =>
          /\ IsPowerOfTwo(last.block_size)
          /\ last.block_size >= last.arg
          /\ last.block_size < 2 * last.arg
    /\ \A n \in 1..(2 * total_memory + MaxOver) :
          LET p == _find_nearest_power_of_two(n)
          IN  IsPowerOfTwo(p) /\ p >= n /\ p < 2 * n

\* a request that is not a power of two was rounded up
C9_Witness ==
    /\ last.op = "allocate"
    /\ last.arg >= 5
    /\ last.block_size = 8

(* ---- C10 ----------------------------------------------------------------- *)

\* capacity 1024: allocate(512) twice, then deallocate both, in either order
C10_Example ==
    LET i == BuddySystemInit(1024)
        r1 == allocate(i, NoAlloc, 1024, 512)
        r2 == allocate(r1.memory, r1.allocated, 1024, 512)
        da == deallocate(r2.memory, r2.allocated, <<0, 512>>)
        dab == deallocate(da.memory, da.allocated, <<512, 1024>>)
        db == deallocate(r2.memory, r2.allocated, <<512, 1024>>)
        dba == deallocate(db.memory, db.allocated, <<0, 512>>)
    IN  /\ r1.block = <<0, 512>> /\ r2.block = <<512, 1024>>
        /\ OnlySeedFree(dab.memory, 1024) /\ DOMAIN dab.allocated = {}
        /\ OnlySeedFree(dba.memory, 1024) /\ DOMAIN dba.allocated = {}

\* C10: on the fresh allocator of capacity C, the first allocate(C/2) returns
\* [0, C/2) and the second [C/2, C); after both are deallocated, in either
\* order, [0, C) is the only free block.
C10_TwoHalves ==
    /\ scen = 1 => last.block = <<0, total_memory \div 2>>
    /\ scen = 2 => last.block = <<total_memory \div 2, total_memory>>
    /\ scen \in {3, 4} => last.status = "Success"
    /\ scen = 4 => (OnlySeedFree(memory, total_memory) /\ DOMAIN allocated = {})
    /\ C10_Example

\* the run ended with the lower half freed first and the upper half last
C10_Witness ==
    /\ scen = 4
    /\ total_memory >= 4
    /\ last.arg = total_memory \div 2

(* ---- C11 ----------------------------------------------------------------- *)

\* C11: no allocator exists whose total_memory is non-positive or not a power
\* of two: construction with such a capacity is rejected and leaves no tables.
C11_InvalidCapacity ==
    IsPowerOfTwo(total_memory) \/ (DOMAIN memory = {} /\ DOMAIN allocated = {})

(* ---- C12 ----------------------------------------------------------------- *)

\* the size classes of the capacity
Classes == {Pow2(k) : k \in 0..(bit_length(total_memory) - 1)}

\* the classes above bs that hold a free block, and the least of them
Donors(mem, bs) == {k \in Classes : k > bs /\ HasFree(mem, k)}

LeastDonor(mem, bs) ==
    CHOOSE d \in Donors(mem, bs) : \A k \in Donors(mem, bs) : d <= k

Halves(block) ==
    << <<block[1], (block[1] + block[2]) \div 2>>,
       <<(block[1] + block[2]) \div 2, block[2]>> >>

\* C12 as stated: when no block is free at blockSize and a donor exists above,
\* one split step removes the donor and puts its two halves in class blockSize,
\* however many classes above the donor is.
C12_HalvesAtBlockSize ==
    \A bs \in Classes :
        (~ HasFree(memory, bs) /\ Donors(memory, bs) # {}) =>
            LET s == _split_block(memory, total_memory, bs)
                d == LeastDonor(memory, bs)
            IN  /\ s.ok
                /\ s.memory[d] = Tail(memory[d])
                /\ s.memory[bs] = Halves(Head(memory[d]))

\* C12 amended: when no block is free at blockSize and a donor exists above,
\* one split step removes the donor and puts its two halves in the class of
\* half the donor's size, which is blockSize only when the donor is in class
\* 2 * blockSize; every other class is left alone, and the step fails without
\* a change when there is no donor.
C12_HalvesOneClassDown ==
    \A bs \in Classes :
        ~ HasFree(memory, bs) =>
            LET s == _split_block(memory, total_memory, bs)
            IN  IF Donors(memory, bs) = {}
                THEN ~ s.ok /\ s.memory = memory
                ELSE LET d == LeastDonor(memory, bs)
                     IN  /\ s.ok
                         /\ s.memory[d] = Tail(memory[d])
                         /\ s.memory[d \div 2] =
                               memory[d \div 2] \o Halves(Head(memory[d]))
                         /\ \A k \in DOMAIN s.memory \ {d, d \div 2} :
                               k \in DOMAIN memory /\ s.memory[k] = memory[k]

\* an allocate of the smallest class went through donors four and two classes
\* above the request
C12_Witness ==
    /\ Succeeded
    /\ last.block_size = 1
    /\ last.splits >= 2

(* ---- C13 ----------------------------------------------------------------- *)

\* C13: every allocate call returns, with a block or with None, and a call
\* whose rounded size is at most total_memory makes at most
\* log2(total_memory / rounded size) split steps.
C13_SplitBound ==
    /\ last.op = "allocate" =>
          /\ last.block = None \/ Len(last.block) = 2
          /\ SizeClass(last.arg) <= total_memory =>
                Pow2(last.splits) * SizeClass(last.arg) <= total_memory
    /\ \A n \in Requests :
          LET r == allocate(memory, allocated, total_memory, n)
          IN  /\ r.block = None \/ Len(r.block) = 2
              /\ SizeClass(n) <= total_memory =>
                    Pow2(r.splits) * SizeClass(n) <= total_memory

\* an allocate that needed every split the bound allows
C13_Witness ==
    /\ Succeeded
    /\ last.splits >= 2
    /\ Pow2(last.splits) * SizeClass(last.arg) = total_memory

(* ---- C14 ----------------------------------------------------------------- *)

\* the start of the buddy of the block of size s at a
BuddyOf(a, s) == IF (a \div s) % 2 = 0 THEN a + s ELSE a - s

\* the block a deallocate ended with: the freed block merged last.merges times
FinalSize == last.block_size * Pow2(last.merges)

FinalBlock ==
    <<last.arg - (last.arg % FinalSize), last.arg - (last.arg % FinalSize) + FinalSize>>

\* C14: coalescing stops exactly when the buddy of the current block is not
\* free or the block is the whole capacity: it makes at most log2(total_memory)
\* merges, leaves the merged block free with no free buddy, never merges
\* [0, total_memory), and no free block is larger than total_memory or reaches
\* past it.
C14_CoalescingStops ==
    /\ \A k \in DOMAIN memory : k <= total_memory
    /\ \A e \in FreeEntries(memory) :
          /\ FreeBlock(memory, e)[2] - FreeBlock(memory, e)[1] <= total_memory
          /\ FreeBlock(memory, e)[2] <= total_memory
    /\ (last.op = "deallocate" /\ last.status = "Success") =>
          /\ FinalSize <= total_memory
          /\ InList(Get(memory, FinalSize), FinalBlock)
          /\ FinalSize = total_memory =>
                FinalBlock = <<0, total_memory>>
          /\ FinalSize < total_memory =>
                ~ InList(Get(memory, FinalSize),
                         <<BuddyOf(FinalBlock[1], FinalSize),
                           BuddyOf(FinalBlock[1], FinalSize) + FinalSize>>)

\* a deallocate merged and then stopped below the capacity, at a block whose
\* buddy is not free
C14_Witness ==
    /\ last.op = "deallocate" /\ last.status = "Success"
    /\ last.merges >= 1
    /\ FinalSize < total_memory

(* ---- C15 ----------------------------------------------------------------- *)

\* C15: between operations no two free blocks of one size are buddies.
C15_NoFreeBuddies ==
    \A e \in FreeEntries(memory) :
        LET b == FreeBlock(memory, e)
            s == b[2] - b[1]
        IN  ~ InList(memory[e[1]], <<BuddyOf(b[1], s), BuddyOf(b[1], s) + s>>)

\* a deallocate that could not merge, its buddy being allocated, with other
\* blocks free
C15_Witness ==
    /\ last.op = "deallocate" /\ last.status = "Success"
    /\ last.merges = 0
    /\ BuddyOf(last.arg, last.block_size) \in DOMAIN allocated
    /\ Cardinality(FreeEntries(memory)) >= 2

(* ---- C16 ----------------------------------------------------------------- *)

\* C16: if a block is free at blockSize, allocate grants the first one without
\* a split and leaves every other class alone; otherwise it splits only from
\* the least class above blockSize that holds a free block, and the classes
\* above that donor class are left alone.
C16_BestFit ==
    \A n \in Requests :
        LET bs == _find_nearest_power_of_two(n)
            r == allocate(memory, allocated, total_memory, n)
        IN  bs <= total_memory =>
                IF HasFree(memory, bs)
                THEN /\ r.block = Head(memory[bs])
                     /\ r.splits = 0
                     /\ \A k \in (DOMAIN memory \cup DOMAIN r.memory) \ {bs} :
                           Get(r.memory, k) = Get(memory, k)
                ELSE IF Donors(memory, bs) = {}
                THEN r.block = None /\ r.memory = memory
                ELSE LET d == LeastDonor(memory, bs)
                     IN  /\ r.block # None
                         /\ Pow2(r.splits) * bs = d
                         /\ r.memory[d] = Tail(memory[d])
                         /\ \A k \in DOMAIN memory \cup DOMAIN r.memory :
                               k > d => Get(r.memory, k) = Get(memory, k)

\* an allocate split a donor while a larger class kept its free block
C16_Witness ==
    /\ Succeeded
    /\ last.splits >= 1
    /\ \E k \in DOMAIN memory :
          k > Pow2(last.splits) * last.block_size /\ memory[k] # <<>>

(* ---- C17 ----------------------------------------------------------------- *)

\* C17: a successful allocate adds one entry, at an address that had none, and
\* changes no other entry; a deallocate of an allocated address removes that
\* address's entry and changes no other entry.
C17_AllocationTableFrame ==
    [][/\ (last'.op = "allocate" /\ last'.block # None) =>
             /\ last'.block[1] \notin DOMAIN allocated
             /\ DOMAIN allocated' = DOMAIN allocated \cup {last'.block[1]}
             /\ \A a \in DOMAIN allocated : allocated'[a] = allocated[a]
       /\ (last'.op = "deallocate" /\ last'.arg \in DOMAIN allocated) =>
             /\ DOMAIN allocated' = DOMAIN allocated \ {last'.arg}
             /\ \A a \in DOMAIN allocated' : allocated'[a] = allocated[a]
       /\ (last'.op = "allocate" /\ last'.block = None) => allocated' = allocated
      ]_vars

\* an allocate that split added a second entry to the table
C17_Witness ==
    /\ Succeeded
    /\ last.splits >= 1
    /\ Cardinality(DOMAIN allocated) >= 2

(* ---- C18 ----------------------------------------------------------------- *)

\* C18: with a total_memory that is not a power of two (or is not positive),
\* every allocate call, whatever the request, returns no block and splits
\* nothing; the free lists keep the single seed block [0, total_memory) and
\* the allocation table stays empty.
C18_NothingGranted ==
    ~ IsPowerOfTwo(total_memory) =>
        /\ memory = BuddySystemInit(total_memory)
        /\ allocated = NoAlloc
        /\ last.op = "allocate" => (last.block = None /\ last.splits = 0)
        /\ \A n \in (0 - 1)..(Max(total_memory, 0) + MaxOver) :
              LET r == allocate(memory, allocated, total_memory, n)
              IN  r.block = None /\ r.splits = 0 /\ r.memory = memory

\* a request that fits under a capacity that is not a power of two was refused
C18_Witness ==
    /\ ~ IsPowerOfTwo(total_memory)
    /\ total_memory >= 3
    /\ last.op = "allocate" /\ last.status = "Failure"
    /\ last.arg >= 2 /\ last.block_size <= total_memory

====
